---- MODULE Spec2Model ----
(***************************************************************************)
(* Seat inventory of the railway booking backend.                          *)
(*                                                                         *)
(* The database rows (users, train_schedules, bookings with their          *)
(* passengers, refund_requests) are the shared state.  Every request is    *)
(* served by a worker with its own SQLAlchemy session: what a session has  *)
(* loaded is a private snapshot, and its writes reach the rows only at     *)
(* db.commit().  Two implementations of reserve/release exist in the       *)
(* source: the served one (app/api/bookings.py -> BookingService) and the  *)
(* repository one with SELECT ... FOR UPDATE (app/repositories/booking.py).*)
(***************************************************************************)
EXTENDS Integers, Sequences, FiniteSets, TLC

\* ------------------------------------------------------------------ bounds
NumWorkers == 2        \* concurrent request workers
MaxBookings == 2       \* booking ids handed out by the bookings table
MaxPassengers == 2     \* longest passenger list of a request
MaxSeats == 2          \* train.total_seats the schedule is created from
MaxFare == 2           \* highest routes.base_fare
MaxSchedules == 2      \* dates create_schedules_for_route looks ahead
RetriesLimit == 3      \* highest CHESS_MAX_RETRIES of a process
MaxArchives == 2       \* monthly archives of the player
GamesPerArchive == 2   \* games with a url in an archive
MaxRuns == 3           \* runs of fetch_and_write
MaxBalance == 3        \* highest balance of a wallet, card or UPI id
MaxTransactions == 2   \* rows of wallet, card and UPI transactions

WorkerIds == 1..NumWorkers
BookingIds == 1..MaxBookings
\* a schedule id no row of train_schedules has
MissingScheduleId == 0
\* passenger details as sent with a booking, and as sent with an update
BookedDetails == "p"
EditedDetails == "q"
PassengerLists == {[i \in 1..n |-> BookedDetails] : n \in 0..MaxPassengers}
EditedLists == {[i \in 1..n |-> EditedDetails] : n \in 0..MaxPassengers}

NoValue == -1

\* a wallet is created with balance 0 (api/payments.py:96, 110); a card and
\* a UPI id with a default balance (46, 156), here one below the highest
Accounts == {"wallet", "card", "upi"}
DefaultBalance == MaxBalance - 1

VARIABLES
    users,             \* ids of the rows of users
    available_seats,   \* train_schedules.available_seats, by schedule id
    total_capacity,    \* train.total_seats the schedule was created from
    bookings,          \* committed rows of bookings (with their passengers)
    booking_seq,       \* last id handed out by the bookings auto-increment
    refund_requests,   \* committed rows of refund_requests
    schedule_lock,     \* holder of the row lock of a train_schedules row, 0 = free
    booking_lock,      \* holder of the row lock of a bookings row, 0 = free
    worker,            \* per worker: request being served, session snapshot
    response,          \* the answer given last
    releases,          \* history: committed releases, by booking id
    total_seats,       \* trains.total_seats of the train of the route
    base_fare,         \* routes.base_fare of the route of the schedules
    is_active,         \* trains.is_active, which the routes of the train follow
    payments,          \* committed rows of payments, in the order of their ids
    http,              \* the call of safe_get_json in progress (fetch_and_post.py)
    etl,               \* Games sheet, state.json and the run of fetch_and_write
    disk,              \* the files save_state writes, and the save in progress
    balance,           \* wallets.balance, credit_cards.balance, upi_ids.balance
    transactions,      \* number of rows of the transactions of each of them
    schedule_date      \* train_schedules.schedule_date, by schedule id

db == <<users, available_seats, total_capacity, bookings, booking_seq, refund_requests>>
locks == <<schedule_lock, booking_lock>>
\* the rows the booking requests never write
catalog == <<total_seats, base_fare, is_active, payments, schedule_date>>
vars == <<users, available_seats, total_capacity, bookings, booking_seq,
          refund_requests, schedule_lock, booking_lock, worker, response, releases,
          total_seats, base_fare, is_active, payments, http, etl, disk,
          balance, transactions, schedule_date>>

\* the wallet, the card and the UPI id of the user
wallets == <<balance, transactions>>

\* the archive fetcher, a program of its own
fetcher == <<http, etl, disk>>

ScheduleIds == DOMAIN available_seats
Workers == DOMAIN worker
ScheduleArgs == ScheduleIds \cup {MissingScheduleId}

\* ------------------------------------------------------------- responses
\* the answer to a request: HTTP status and detail (for the repository
\* functions: what is returned or raised), and the two counts an
\* InsufficientSeatsError carries
Response(op, code, detail, available, requested) ==
    [op |-> op, code |-> code, detail |-> detail,
     available |-> available, requested |-> requested]

Plain(op, code, detail) == Response(op, code, detail, NoValue, NoValue)

NoResponse == Plain("", 0, "")

IdleWorker ==
    [pc |-> "idle", user_id |-> 0, schedule_id |-> 0, booking_id |-> 0,
     passengers |-> <<>>, seats |-> NoValue, count |-> NoValue, amount |-> NoValue,
     account |-> "", balance |-> NoValue, dates |-> {}]

Free(w) == worker[w].pc = "idle"

\* a request goes on after its first step: the session keeps what it loaded
\* and computed
ContinueWith(w, pc, user, sid, bid, plist, seats, count, amount) ==
    /\ worker' = [worker EXCEPT ![w] =
           [pc |-> pc, user_id |-> user, schedule_id |-> sid, booking_id |-> bid,
            passengers |-> plist, seats |-> seats, count |-> count,
            amount |-> amount, account |-> "", balance |-> NoValue, dates |-> {}]]
    /\ response' = response

Continue(w, pc, user, sid, bid, plist, seats, count) ==
    ContinueWith(w, pc, user, sid, bid, plist, seats, count, NoValue)

\* a request is answered in its first step
Reject(w, resp) ==
    /\ worker' = worker
    /\ response' = resp

\* a request is answered: the session is closed and the worker is free
Finish(w, resp) ==
    /\ worker' = [worker EXCEPT ![w] = IdleWorker]
    /\ response' = resp

BookingRow(user, sid, plist, amount) ==
    [user_id |-> user, schedule_id |-> sid, passenger_count |-> Len(plist),
     total_amount |-> amount, status |-> "confirmed", passengers |-> plist]

RefundRow(bid, user, amount) ==
    [booking_id |-> bid, user_id |-> user, amount |-> amount, status |-> "pending",
     admin_id |-> 0]

\* ------------------------------------------------ archive fetcher: values
\* the outcome of requests.get: the status code of the response, or no
\* response at all (requests.RequestException)
RequestException == 0
\* the status codes safe_get_json sleeps on and tries again
Retried == {429, 500, 502, 503, 504}
StatusCodes == {200, 204, 404} \cup Retried
Outcomes == {RequestException} \cup StatusCodes
\* Response.raise_for_status raises HTTPError for 4xx and 5xx only
RaisesForStatus(status) == status >= 400 /\ status < 600

\* no call of safe_get_json yet
NoCall ==
    [pc |-> "idle", max_retries |-> 0, attempt |-> 0, wait |-> 0,
     slept |-> <<>>, responses |-> <<>>, raised |-> ""]

\* the Games sheet (its game_url column), the processed archives of
\* state.json, and no run of fetch_and_write
NoRun ==
    [games |-> <<>>, processed |-> {}, runs |-> 0, pc |-> "idle",
     existing_urls |-> {}, processed_archives |-> {}, archive |-> 0,
     rows |-> <<>>]

\* the archives of the player, in the order of the archives list, and the
\* game_url of each of their games: NoUrl for a game without "url"
Archives == 1..MaxArchives
NoUrl == <<>>
ArchiveGames(archive) ==
    IF archive = 1
    THEN <<NoUrl>> \o [k \in 1..GamesPerArchive |-> <<archive, k>>]
    ELSE [k \in 1..GamesPerArchive |-> <<archive, k>>]

\* the text json.dump writes for a state, token by token: an opening brace,
\* the sorted processed_archives, a closing brace
OpenBrace == 0
CloseBrace == MaxArchives + 1
RECURSIVE Sorted(_)
Sorted(archives) ==
    IF archives = {}
    THEN <<>>
    ELSE LET first == CHOOSE a \in archives : \A b \in archives : a <= b
         IN  <<first>> \o Sorted(archives \ {first})
Dump(archives) == <<OpenBrace>> \o Sorted(archives) \o <<CloseBrace>>

\* a path at which no file exists
NoFile == <<NoValue>>

\* json.load of a text: the state it holds, or ValueError for a text that
\* is not complete
IsJson(text) ==
    /\ text # NoFile
    /\ Len(text) >= 2
    /\ text[1] = OpenBrace
    /\ text[Len(text)] = CloseBrace
    /\ \A i \in 2..(Len(text) - 1) : text[i] \in Archives
Loads(text) == {text[i] : i \in 2..(Len(text) - 1)}

\* no state.json, no state.json.tmp, no save_state in progress
NoSave ==
    [state_file |-> NoFile, tmp |-> NoFile, pc |-> "idle", data |-> <<>>,
     previous |-> NoFile, loaded |-> {}, warned |-> FALSE]

\* the rows after setup: the given users, the given schedules created by
\* create_schedules_for_route (services:206-210) with available_seats =
\* route.train.total_seats, no booking yet; the given workers are idle
InitSchedules(userIds, workerIds, scheduleIds) ==
    /\ users = userIds
    /\ total_capacity \in [scheduleIds -> 1..MaxSeats]
    /\ available_seats = total_capacity
    /\ bookings = <<>>
    /\ booking_seq = 0
    /\ refund_requests = <<>>
    /\ schedule_lock = [s \in scheduleIds |-> 0]
    /\ booking_lock = [b \in BookingIds |-> 0]
    /\ worker = [w \in workerIds |-> IdleWorker]
    /\ response = NoResponse
    /\ releases = [b \in BookingIds |-> 0]
    /\ total_seats = total_capacity[1]
    /\ base_fare = 1
    /\ is_active = TRUE
    /\ payments = <<>>
    /\ http = NoCall
    /\ etl = NoRun
    /\ disk = NoSave
    /\ balance = [a \in Accounts |-> IF a = "wallet" THEN 0 ELSE DefaultBalance]
    /\ transactions = [a \in Accounts |-> 0]
    /\ schedule_date = [s \in scheduleIds |-> s]

\* one schedule
InitRows(userIds, workerIds) == InitSchedules(userIds, workerIds, {1})

\* one user, served by all the workers
Init == InitRows({1}, WorkerIds)

\* ------------------------------------------ BookingService.create_booking
\* services/__init__.py:254: "not schedule or schedule.available_seats < n"
InsufficientSeats(sid, n) ==
    \/ sid \notin ScheduleIds
    \/ available_seats[sid] < n

\* services/__init__.py:258: schedule.route.base_fare * len(passengers)
TotalAmount(n) == base_fare * n

\* services/__init__.py:253-277, reached from api/bookings.py:17-23: the
\* check, and the flush of the INSERT of the booking row, which takes the
\* next id of the table inside the open transaction
CreateBookingCheck(w, user, sid, plist) ==
    /\ Free(w)
    /\ booking_seq < MaxBookings
    /\ IF InsufficientSeats(sid, Len(plist))
       THEN /\ Reject(w, Plain("create_booking", 400, "Insufficient seats available"))
            /\ UNCHANGED booking_seq
       ELSE /\ ContinueWith(w, "create_commit", user, sid, booking_seq + 1, plist,
                            available_seats[sid], Len(plist),
                            TotalAmount(Len(plist)))
            /\ booking_seq' = booking_seq + 1
    /\ UNCHANGED <<users, available_seats, total_capacity, bookings, refund_requests,
                   locks, releases>>

\* a commit that writes the counter of every schedule
WrittenToAll(sid, loaded, value) ==
    [s \in ScheduleIds |-> value]

\* the UPDATE a commit sends for a counter the session loaded as "loaded"
\* and set to "value": the ORM writes the value it computed, and sends no
\* UPDATE for an attribute whose value did not change
Written(sid, loaded, value) ==
    IF value = loaded THEN available_seats
    ELSE [available_seats EXCEPT ![sid] = value]

\* services/__init__.py:290: the counter is computed from the value the
\* session loaded at the check
CreateBookingSeats(w) ==
    worker[w].seats - Len(worker[w].passengers)

\* services/__init__.py:280-293: passengers, counter and booking are
\* written by one commit
CreateBookingCommit(w) ==
    /\ worker[w].pc = "create_commit"
    /\ LET sid == worker[w].schedule_id
           bid == worker[w].booking_id IN
       /\ schedule_lock[sid] = 0
       /\ bookings' = bid :> BookingRow(worker[w].user_id, sid, worker[w].passengers,
                                        worker[w].amount)
                      @@ bookings
       /\ available_seats' = Written(sid, worker[w].seats, CreateBookingSeats(w))
       /\ Finish(w, Plain("create_booking", 200, "booking"))
    /\ UNCHANGED <<users, total_capacity, booking_seq, refund_requests, locks, releases>>

\* what a rolled back transaction leaves of its writes: nothing
RolledBack ==
    /\ available_seats' = available_seats
    /\ bookings' = bookings
    /\ refund_requests' = refund_requests

\* a commit that fails after the INSERT of the booking row was made durable
CreateBookingFailAfterInsert(w) ==
    /\ worker[w].pc = "create_commit"
    /\ bookings' = worker[w].booking_id :>
                       BookingRow(worker[w].user_id, worker[w].schedule_id,
                                  worker[w].passengers, worker[w].amount) @@ bookings
    /\ Finish(w, Plain("create_booking", 500, "Booking failed. Please try again."))
    /\ UNCHANGED <<users, available_seats, total_capacity, booking_seq,
                   refund_requests, locks, releases>>

\* api/bookings.py:24-29: any other exception (a failed commit) rolls the
\* session back and answers 500
CreateBookingFail(w) ==
    /\ worker[w].pc = "create_commit"
    /\ RolledBack
    /\ Finish(w, Plain("create_booking", 500, "Booking failed. Please try again."))
    /\ UNCHANGED <<users, total_capacity, booking_seq, locks, releases>>

\* --------------------------------- BookingService.cancel_booking_with_refund
\* the row Booking.id == booking_id AND Booking.user_id == user_id, if any
OwnedBooking(bid, user) ==
    /\ bid \in DOMAIN bookings
    /\ bookings[bid].user_id = user

\* services/__init__.py:333-344, reached from api/bookings.py:71-75
CancelBookingCheck(w, user, bid) ==
    /\ Free(w)
    /\ LET op == "cancel_booking_with_refund" IN
       IF ~OwnedBooking(bid, user)
       THEN Reject(w, Plain(op, 400, "Booking not found"))
       ELSE IF bookings[bid].status # "confirmed"
       THEN Reject(w, Plain(op, 400, "Only confirmed bookings can be cancelled"))
       ELSE ContinueWith(w, "cancel_schedule", user, bookings[bid].schedule_id, bid,
                         <<>>, NoValue, bookings[bid].passenger_count,
                         bookings[bid].total_amount)
    /\ UNCHANGED <<db, locks, releases>>

\* services/__init__.py:347: the schedule row is loaded by a second query
CancelBookingSchedule(w) ==
    /\ worker[w].pc = "cancel_schedule"
    /\ worker' = [worker EXCEPT ![w].pc = "cancel_commit",
                                ![w].seats = available_seats[worker[w].schedule_id]]
    /\ UNCHANGED <<db, locks, response, releases>>

\* services/__init__.py:348: the counter is computed from the values the
\* session loaded
CancelBookingSeats(w) ==
    worker[w].seats + worker[w].count

\* services/__init__.py:344-358: status, counter and refund request are
\* written by one commit
CancelBookingCommit(w) ==
    /\ worker[w].pc = "cancel_commit"
    /\ LET sid == worker[w].schedule_id
           bid == worker[w].booking_id IN
       /\ schedule_lock[sid] = 0
       /\ booking_lock[bid] = 0
       /\ bookings' = [bookings EXCEPT ![bid].status = "cancelled"]
       /\ available_seats' = Written(sid, worker[w].seats, CancelBookingSeats(w))
       /\ refund_requests' = Append(refund_requests,
                                   RefundRow(bid, worker[w].user_id, worker[w].amount))
       /\ releases' = [releases EXCEPT ![bid] = @ + 1]
       /\ Finish(w, Plain("cancel_booking_with_refund", 200,
                          "Booking cancelled and refunded successfully"))
    /\ UNCHANGED <<users, total_capacity, booking_seq, locks>>

\* an exception other than ValueError leaves the handler (api/bookings.py:74)
\* and get_db rolls the session back (core/database.py:33-36)
CancelBookingFail(w) ==
    /\ worker[w].pc \in {"cancel_schedule", "cancel_commit"}
    /\ Finish(w, Plain("cancel_booking_with_refund", 500, "Internal Server Error"))
    /\ UNCHANGED <<db, locks, releases>>

\* ------------------------------------------------ get_booking (api:38-50)
GetBooking(w, user, bid) ==
    /\ Free(w)
    /\ IF OwnedBooking(bid, user)
       THEN Reject(w, Plain("get_booking", 200, "booking"))
       ELSE Reject(w, Plain("get_booking", 404, "Booking not found"))
    /\ UNCHANGED <<db, locks, releases>>

\* ------------------------------ BookingService.update_booking_passengers
\* services/__init__.py:308-316, reached from api/bookings.py:59-63
UpdateBookingCheck(w, user, bid, plist) ==
    /\ Free(w)
    /\ LET op == "update_booking_passengers" IN
       IF ~OwnedBooking(bid, user)
       THEN Reject(w, Plain(op, 400, "Booking not found"))
       ELSE IF bookings[bid].status # "confirmed"
       THEN Reject(w, Plain(op, 400, "Only confirmed bookings can be edited"))
       ELSE Continue(w, "update_commit", user, 0, bid, plist, NoValue, NoValue)
    /\ UNCHANGED <<db, locks, releases>>

\* an update that replaces the stored passengers by the list of the request
ReplacedPassengers(stored, plist) == plist

\* services/__init__.py:319-324: the i-th stored passenger takes the i-th
\* entry of the request; entries beyond the stored passengers are dropped
UpdatedPassengers(stored, plist) ==
    [i \in 1..Len(stored) |-> IF i <= Len(plist) THEN plist[i] ELSE stored[i]]

\* services/__init__.py:326
UpdateBookingCommit(w) ==
    /\ worker[w].pc = "update_commit"
    /\ LET bid == worker[w].booking_id IN
       bookings' = [bookings EXCEPT ![bid].passengers =
                        UpdatedPassengers(@, worker[w].passengers)]
    /\ Finish(w, Plain("update_booking_passengers", 200, "Booking updated successfully"))
    /\ UNCHANGED <<users, available_seats, total_capacity, booking_seq, refund_requests,
                   locks, releases>>

\* a failed commit leaves the handler (api/bookings.py:62) and get_db rolls
\* the session back (core/database.py:33-36)
UpdateBookingFail(w) ==
    /\ worker[w].pc = "update_commit"
    /\ Finish(w, Plain("update_booking_passengers", 500, "Internal Server Error"))
    /\ UNCHANGED <<db, locks, releases>>

\* ------------------- BookingRepository.create_booking_with_seat_lock
\* repositories/booking.py:31-43: SELECT ... FOR UPDATE on the schedule row;
\* the statement waits while another transaction holds the row
LockedCreateBegin(w, user, sid, plist) ==
    /\ Free(w)
    /\ IF sid \notin ScheduleIds
       THEN /\ Reject(w, Plain("create_booking_with_seat_lock", 404,
                               "TrainSchedule not found"))
            /\ UNCHANGED schedule_lock
       ELSE /\ schedule_lock[sid] = 0
            /\ schedule_lock' = [schedule_lock EXCEPT ![sid] = w]
            /\ Continue(w, "locked_create", user, sid, 0, plist,
                        available_seats[sid], Len(plist))
    /\ UNCHANGED <<db, booking_lock, releases>>

\* the end of a transaction that gives back the locks of its booking rows
\* and keeps those of its schedule rows
UnlockBookings(w) ==
    /\ schedule_lock' = schedule_lock
    /\ booking_lock' = [b \in DOMAIN booking_lock |->
                            IF booking_lock[b] = w THEN 0 ELSE booking_lock[b]]

\* the row locks of a transaction end with it
Unlock(w) ==
    /\ schedule_lock' = [s \in DOMAIN schedule_lock |->
                            IF schedule_lock[s] = w THEN 0 ELSE schedule_lock[s]]
    /\ booking_lock' = [b \in DOMAIN booking_lock |->
                            IF booking_lock[b] = w THEN 0 ELSE booking_lock[b]]

\* repositories/booking.py:45-65: the check under the lock; when it passes,
\* Booking(...) calls _generate_booking_reference (booking.py:233-237), which
\* raises AttributeError (the secrets module has no "choices"), and the
\* transaction block rolls back
LockedCreateBody(w) ==
    /\ worker[w].pc = "locked_create"
    /\ Unlock(w)
    /\ RolledBack
    /\ LET op == "create_booking_with_seat_lock" IN
       IF worker[w].seats < worker[w].count
       THEN Finish(w, Response(op, 409, "Insufficient seats",
                               worker[w].seats, worker[w].count))
       ELSE Finish(w, Plain(op, 500, "AttributeError"))
    /\ UNCHANGED <<users, total_capacity, booking_seq, releases>>

\* ------------------- BookingRepository.cancel_booking_with_seat_release
\* the row id == booking_id AND user_id == user_id AND status == "confirmed"
ConfirmedOwnedBooking(bid, user) ==
    /\ OwnedBooking(bid, user)
    /\ bookings[bid].status = "confirmed"

\* repositories/booking.py:109-128: SELECT ... FOR UPDATE on the booking row
LockedCancelBegin(w, user, bid) ==
    /\ Free(w)
    /\ IF ~ConfirmedOwnedBooking(bid, user)
       THEN /\ Reject(w, Plain("cancel_booking_with_seat_release", 0, "None"))
            /\ UNCHANGED booking_lock
       ELSE /\ booking_lock[bid] = 0
            /\ booking_lock' = [booking_lock EXCEPT ![bid] = w]
            /\ Continue(w, "locked_cancel_schedule", user, bookings[bid].schedule_id,
                        bid, <<>>, NoValue, bookings[bid].passenger_count)
    /\ UNCHANGED <<db, schedule_lock, releases>>

\* repositories/booking.py:130-138: SELECT ... FOR UPDATE on the schedule row
LockedCancelSchedule(w) ==
    /\ worker[w].pc = "locked_cancel_schedule"
    /\ LET sid == worker[w].schedule_id IN
       /\ schedule_lock[sid] = 0
       /\ schedule_lock' = [schedule_lock EXCEPT ![sid] = w]
       /\ worker' = [worker EXCEPT ![w].pc = "locked_cancel_commit",
                                   ![w].seats = available_seats[sid]]
    /\ UNCHANGED <<db, booking_lock, response, releases>>

\* repositories/booking.py:140-159
LockedCancelCommit(w) ==
    /\ worker[w].pc = "locked_cancel_commit"
    /\ LET sid == worker[w].schedule_id
           bid == worker[w].booking_id IN
       /\ bookings' = [bookings EXCEPT ![bid].status = "cancelled"]
       /\ available_seats' = Written(sid, worker[w].seats,
                                      worker[w].seats + worker[w].count)
       /\ releases' = [releases EXCEPT ![bid] = @ + 1]
       /\ Unlock(w)
       /\ Finish(w, Plain("cancel_booking_with_seat_release", 0, "booking"))
    /\ UNCHANGED <<users, total_capacity, booking_seq, refund_requests>>

\* an exception inside "async with db.begin()" (booking.py:109) rolls back
LockedCancelFail(w) ==
    /\ worker[w].pc \in {"locked_cancel_schedule", "locked_cancel_commit"}
    /\ Unlock(w)
    /\ Finish(w, Plain("cancel_booking_with_seat_release", 500, "rollback"))
    /\ UNCHANGED <<db, releases>>

\* -------------------------------------------- process_payment (payments.py)
PaymentRow(bid, user, amount) ==
    [booking_id |-> bid, user_id |-> user, amount |-> amount, status |-> "completed"]

\* api/payments.py:240: the rows Payment.booking_id == booking.id
PaymentsOf(bid) == {p \in DOMAIN payments : payments[p].booking_id = bid}

\* a process_payment that charges the seats at the fare of the route as it
\* is when the payment is made
ProcessPaymentAtCurrentFare(w, user, bid, funded) ==
    /\ Free(w)
    /\ OwnedBooking(bid, user)
    /\ PaymentsOf(bid) = {}
    /\ funded
    /\ payments' = Append(payments,
                          PaymentRow(bid, user, TotalAmount(bookings[bid].passenger_count)))
    /\ Reject(w, Plain("process_payment", 200, "payment"))
    /\ UNCHANGED <<db, locks, releases, total_seats, base_fare, is_active,
                   schedule_date>>

\* api/payments.py:234-325: the booking of the caller is looked up, a second
\* payment of a booking is refused, the balance of the wallet, card or UPI id
\* (not modelled: "funded" tells whether it covers the amount) is charged
\* booking.total_amount, and a payment of that amount is recorded
ProcessPayment(w, user, bid, funded) ==
    /\ Free(w)
    /\ LET op == "process_payment" IN
       IF ~OwnedBooking(bid, user)
       THEN Reject(w, Plain(op, 404, "Booking not found")) /\ UNCHANGED payments
       ELSE IF PaymentsOf(bid) # {}
       THEN /\ Reject(w, Plain(op, 400, "Payment already processed for this booking"))
            /\ UNCHANGED payments
       ELSE IF ~funded
       THEN Reject(w, Plain(op, 400, "Insufficient balance")) /\ UNCHANGED payments
       ELSE /\ payments' = Append(payments,
                                  PaymentRow(bid, user, bookings[bid].total_amount))
            /\ Reject(w, Plain(op, 200, "payment"))
    /\ UNCHANGED <<db, locks, releases, total_seats, base_fare, is_active,
                   schedule_date>>

\* ------------------------------------------------ RefundService (admin.py)
\* services/__init__.py:373-398 and 407-431: a pending refund request is
\* approved or rejected; nothing else is written
DecideRefund(w, op, rid, decision, done) ==
    /\ Free(w)
    /\ IF rid \notin DOMAIN refund_requests
       THEN Reject(w, Plain(op, 400, "Refund request not found"))
            /\ UNCHANGED refund_requests
       ELSE IF refund_requests[rid].status # "pending"
       THEN Reject(w, Plain(op, 400, "Refund request is not pending"))
            /\ UNCHANGED refund_requests
       ELSE /\ refund_requests' = [refund_requests EXCEPT ![rid].status = decision,
                                                            ![rid].admin_id = w]
            /\ Reject(w, Plain(op, 200, done))
    /\ UNCHANGED <<users, available_seats, total_capacity, bookings, booking_seq,
                   locks, releases, catalog>>

\* the same decision as the steps of a session that runs beside others:
\* services/__init__.py:373-378 (409-414), the row is read and checked
DecideRefundCheck(w, op, rid, decision) ==
    /\ Free(w)
    /\ IF rid \notin DOMAIN refund_requests
       THEN Reject(w, Plain(op, 400, "Refund request not found"))
       ELSE IF refund_requests[rid].status # "pending"
       THEN Reject(w, Plain(op, 400, "Refund request is not pending"))
       ELSE Continue(w, decision, w, 0, rid, <<>>, NoValue, NoValue)
    /\ UNCHANGED <<db, locks, releases, catalog>>

\* services/__init__.py:381-398 (417-431): status, approved_at and admin_id
\* are written by the commit, over whatever the row holds by then; the
\* worker is logged in as the admin of its own number
DecideRefundCommit(w) ==
    /\ worker[w].pc \in {"approved", "rejected"}
    /\ refund_requests' =
           [refund_requests EXCEPT ![worker[w].booking_id].status = worker[w].pc,
                                   ![worker[w].booking_id].admin_id = w]
    /\ Finish(w, Plain(IF worker[w].pc = "approved"
                       THEN "approve_refund_request" ELSE "reject_refund_request",
                       200,
                       IF worker[w].pc = "approved"
                       THEN "Refund request approved and processed successfully"
                       ELSE "Refund request rejected"))
    /\ UNCHANGED <<users, available_seats, total_capacity, bookings, booking_seq,
                   locks, releases, catalog>>

\* api/admin.py:240-250
ApproveRefundRequest(w, rid) ==
    DecideRefund(w, "approve_refund_request", rid, "approved",
                 "Refund request approved and processed successfully")

\* api/admin.py:252-263
RejectRefundRequest(w, rid) ==
    DecideRefund(w, "reject_refund_request", rid, "rejected", "Refund request rejected")

\* ------------------------------------------- trains and routes (services)
\* the train and the route of the schedules have id 1; no row has id 0
CatalogIds == {0, 1}

\* total_seats as a request may send it: TrainBase.total_seats is an int
\* without a constraint (schemas/__init__.py:120)
SeatValues == 0..MaxSeats

FareValues == 1..MaxFare

\* an update_train that also resets the seats of the schedules of the train
UpdateTrainResettingSeats(w, tid, seats) ==
    /\ Free(w)
    /\ tid = 1
    /\ total_seats' = seats
    /\ available_seats' = [s \in ScheduleIds |-> seats]
    /\ Reject(w, Plain("update_train", 200, "train"))
    /\ UNCHANGED <<users, total_capacity, bookings, booking_seq, refund_requests,
                   locks, releases, base_fare, is_active, payments,
                   schedule_date>>

\* services/__init__.py:78-86, reached from api/trains.py:38-48: every field
\* of the train is overwritten; no schedule is touched
UpdateTrain(w, tid, seats) ==
    /\ Free(w)
    /\ IF tid # 1
       THEN Reject(w, Plain("update_train", 404, "Train not found"))
            /\ UNCHANGED total_seats
       ELSE /\ total_seats' = seats
            /\ Reject(w, Plain("update_train", 200, "train"))
    /\ UNCHANGED <<db, locks, releases, base_fare, is_active, payments,
                   schedule_date>>

\* services/__init__.py:89-106, reached from api/trains.py:50-59: the flag of
\* the train is flipped and the routes of the train are set to it
ToggleTrainStatus(w, tid) ==
    /\ Free(w)
    /\ IF tid # 1
       THEN Reject(w, Plain("toggle_train_status", 404, "Train not found"))
            /\ UNCHANGED is_active
       ELSE /\ is_active' = ~is_active
            /\ Reject(w, Plain("toggle_train_status", 200,
                               IF is_active THEN "deactivated" ELSE "activated"))
    /\ UNCHANGED <<db, locks, releases, total_seats, base_fare, payments,
                   schedule_date>>

\* services/__init__.py:224-232, reached from api/routes.py:40-50
UpdateRoute(w, rid, fare) ==
    /\ Free(w)
    /\ IF rid # 1
       THEN Reject(w, Plain("update_route", 404, "Route not found"))
            /\ UNCHANGED base_fare
       ELSE /\ base_fare' = fare
            /\ Reject(w, Plain("update_route", 200, "route"))
    /\ UNCHANGED <<db, locks, releases, total_seats, is_active, payments,
                   schedule_date>>

\* services/__init__.py:186-213, reached from api/routes.py:71-83: for each
\* of the next "days" dates (the schedule of a date has the date as its id)
\* without a schedule, one is created with the seats of the train
CreateSchedulesForRoute(w, rid, days) ==
    /\ Free(w)
    /\ LET created == IF rid = 1 THEN (1..days) \ ScheduleIds ELSE {} IN
       /\ available_seats' = [s \in created |-> total_seats] @@ available_seats
       /\ total_capacity' = [s \in created |-> total_seats] @@ total_capacity
       /\ schedule_lock' = [s \in created |-> 0] @@ schedule_lock
       /\ schedule_date' = [s \in created |-> s] @@ schedule_date
    /\ Reject(w, Plain("create_schedules_for_route", 200, "Schedules created"))
    /\ UNCHANGED <<users, bookings, booking_seq, refund_requests, booking_lock,
                   releases, total_seats, base_fare, is_active, payments>>

\* -------------------------------------------- archive fetcher: one request
\* safe_get_json is called in a process started with CHESS_MAX_RETRIES = m:
\* range(1, m + 1) is empty for m < 1 and the function raises at its end
SafeGetJson(m) ==
    /\ http.pc # "loop"
    /\ http' = IF m < 1
               THEN [NoCall EXCEPT !.pc = "raised", !.max_retries = m,
                                   !.raised = "RuntimeError"]
               ELSE [NoCall EXCEPT !.pc = "loop", !.max_retries = m,
                                   !.attempt = 1, !.wait = 2]

\* the failures safe_get_json treats as transient
Transient == {RequestException} \cup Retried

\* the call ends with an exception
Raise(outcome, error) ==
    http' = [http EXCEPT !.pc = "raised", !.raised = error,
                         !.responses = Append(@, outcome)]

\* time.sleep(wait); wait *= 2; continue
SleepAndContinue(outcome) ==
    http' = [http EXCEPT !.responses = Append(@, outcome),
                         !.slept = Append(@, http.wait),
                         !.wait = 2 * @,
                         !.attempt = @ + 1]

\* mutant of Request: the wait stays at two seconds
RequestWithFixedWait(outcome) ==
    /\ http.pc = "loop"
    /\ LET last == http.attempt = http.max_retries
           Again == http' = [http EXCEPT !.responses = Append(@, outcome),
                                         !.slept = Append(@, http.wait),
                                         !.attempt = @ + 1]
       IN  IF outcome = 200
           THEN http' = [http EXCEPT !.pc = "returned",
                                     !.responses = Append(@, outcome)]
           ELSE IF outcome \in Transient
           THEN IF last THEN Raise(outcome, "HTTPError") ELSE Again
           ELSE IF RaisesForStatus(outcome) \/ last
           THEN Raise(outcome, "HTTPError")
           ELSE http' = [http EXCEPT !.responses = Append(@, outcome),
                                     !.attempt = @ + 1]

\* one pass of the loop of safe_get_json: the request and what follows it
Request(outcome) ==
    /\ http.pc = "loop"
    /\ LET last == http.attempt = http.max_retries
       IN  IF outcome = RequestException
           THEN IF last THEN Raise(outcome, "RequestException")
                        ELSE SleepAndContinue(outcome)
           ELSE IF outcome = 200
           THEN http' = [http EXCEPT !.pc = "returned",
                                     !.responses = Append(@, outcome)]
           ELSE IF outcome \in Retried
           THEN IF last THEN Raise(outcome, "HTTPError")
                        ELSE SleepAndContinue(outcome)
           ELSE IF RaisesForStatus(outcome)
           THEN Raise(outcome, "HTTPError")
           \* raise_for_status returns: the loop goes on at once, and the
           \* function raises at its end when this was the last pass
           ELSE IF last THEN Raise(outcome, "RuntimeError")
           ELSE http' = [http EXCEPT !.responses = Append(@, outcome),
                                     !.attempt = @ + 1]

\* ------------------------------------------------ archive fetcher: a run
\* read_existing_game_urls: the non-empty values of the game_url column, or
\* the empty set when reading the sheet raises (fetch_and_post.py:176-177)
ReadExistingGameUrls(readFails) ==
    IF readFails
    THEN {}
    ELSE {etl.games[i] : i \in 1..Len(etl.games)} \ {NoUrl}

\* what a run keeps in memory is gone when it ends
EndRun == etl' = [NoRun EXCEPT !.games = etl.games, !.processed = etl.processed,
                               !.runs = etl.runs]

\* fetch_and_write up to the loop over the archives (204-229)
StartRun(readFails) ==
    /\ etl.pc = "idle"
    /\ etl.runs < MaxRuns
    /\ etl' = [etl EXCEPT !.pc = "archives", !.runs = @ + 1,
                          !.existing_urls = ReadExistingGameUrls(readFails),
                          !.processed_archives = etl.processed]

\* the first archive of the list that is not in processed_archives
NextArchive ==
    CHOOSE a \in Archives \ etl.processed_archives :
        \A b \in Archives \ etl.processed_archives : a <= b

\* the rows of the games whose url is empty or not in existing_urls (241-269)
RECURSIVE NewRows(_, _)
NewRows(games, existing) ==
    IF games = <<>>
    THEN <<>>
    ELSE LET url == Head(games)
         IN  IF url # NoUrl /\ url \in existing
             THEN NewRows(Tail(games), existing)
             ELSE <<url>> \o NewRows(Tail(games), existing \cup ({url} \ {NoUrl}))

\* 231-269: the archive is fetched and its rows are built
FetchArchive ==
    /\ etl.pc = "archives"
    /\ Archives \ etl.processed_archives # {}
    /\ LET games == ArchiveGames(NextArchive)
       IN  etl' = [etl EXCEPT
                      !.pc = "append",
                      !.archive = NextArchive,
                      !.rows = NewRows(games, etl.existing_urls),
                      !.existing_urls =
                          @ \cup ({games[i] : i \in 1..Len(games)} \ {NoUrl})]

\* 271-272: append_rows to the Games sheet
AppendRows ==
    /\ etl.pc = "append"
    /\ etl' = [etl EXCEPT !.pc = "save", !.games = @ \o etl.rows]

\* 279-286: the archive is added to processed_archives and state.json is
\* replaced
SaveState ==
    /\ etl.pc = "save"
    /\ etl' = [etl EXCEPT !.pc = "archives",
                          !.processed_archives = @ \cup {etl.archive},
                          !.processed = etl.processed_archives \cup {etl.archive},
                          !.archive = 0,
                          !.rows = <<>>]

\* 288: no archive is left
RunComplete ==
    /\ etl.pc = "archives"
    /\ Archives \ etl.processed_archives = {}
    /\ EndRun

\* the process ends where it is: safe_get_json or a call of the Sheets API
\* raises, or the process is killed
Crash ==
    /\ etl.pc # "idle"
    /\ EndRun

\* ------------------------------------------ archive fetcher: state.json
\* a file written in place: state.json itself is truncated and written
SaveStateInPlace(archives) ==
    /\ disk.pc = "idle"
    /\ disk' = [disk EXCEPT !.pc = "dump", !.state_file = <<>>,
                            !.data = Dump(archives),
                            !.previous = disk.state_file]

\* save_state, line 196-197: state.json.tmp is created or truncated
SaveStateOpen(archives) ==
    /\ disk.pc = "idle"
    /\ disk' = [disk EXCEPT !.pc = "dump", !.tmp = <<>>,
                            !.data = Dump(archives),
                            !.previous = disk.state_file]

\* line 198: the next part of the text reaches the file
Write ==
    /\ disk.pc = "dump"
    /\ Len(disk.tmp) < Len(disk.data)
    /\ disk' = [disk EXCEPT !.tmp = Append(@, disk.data[Len(disk.tmp) + 1])]

\* line 199, after the file is closed: os.replace(tmp, STATE_FILE)
Replace ==
    /\ disk.pc = "dump"
    /\ disk.tmp = disk.data
    /\ disk' = [disk EXCEPT !.pc = "idle", !.state_file = disk.tmp,
                            !.tmp = NoFile, !.data = <<>>]

\* the process ends during save_state: the files stay as they are
CrashInSave ==
    /\ disk.pc = "dump"
    /\ disk' = [disk EXCEPT !.pc = "idle", !.data = <<>>]

\* load_state (182-192) of the next process: {} for no file and for a file
\* json.load cannot read, else the state of the file
LoadState ==
    /\ disk.pc = "idle"
    /\ disk' = [disk EXCEPT
                   !.loaded = IF IsJson(disk.state_file)
                              THEN Loads(disk.state_file) ELSE {},
                   !.warned = disk.state_file # NoFile /\ ~IsJson(disk.state_file)]

\* ------------------------------------- balances (api/payments.py), by steps
\* a request goes on to its commit with the balance it has read
ContinueOn(w, pc, user, bid, account, amount) ==
    /\ worker' = [worker EXCEPT ![w] =
           [IdleWorker EXCEPT !.pc = pc, !.user_id = user, !.booking_id = bid,
                              !.amount = amount, !.account = account,
                              !.balance = IF account = "" THEN NoValue
                                          ELSE balance[account]]]
    /\ response' = response

\* an UPDATE that applies the change to the balance the row holds at commit
\* (SET balance = balance - amount)
AppliedToRow(account, loaded, value) ==
    IF account = "" THEN balance
    ELSE [balance EXCEPT ![account] = @ + (value - loaded)]

\* the UPDATE the commit sends for a balance attribute: the value was
\* computed from the loaded balance, and an attribute whose value did not
\* change is not written
WrittenBalance(account, loaded, value) ==
    IF account = "" THEN balance
    ELSE IF value = loaded THEN balance
    ELSE [balance EXCEPT ![account] = value]

\* one more row of wallet_transactions, card_transactions, upi_transactions
Recorded(account) ==
    IF account = "" THEN transactions
    ELSE [transactions EXCEPT ![account] = @ + 1]

\* no more rows than MaxTransactions are followed, over the three tables
RoomFor(account) ==
    IF account = "" THEN TRUE
    ELSE transactions["wallet"] + transactions["card"] + transactions["upi"]
           < MaxTransactions

\* the values of PaymentMethodEnum (schemas/payment.py:7-11), and the row
\* process_payment charges for each: it has no branch for DEBIT_CARD
PaymentMethods == {"WALLET", "CREDIT_CARD", "DEBIT_CARD", "UPI"}
AccountOf(method) ==
    CASE method = "WALLET" -> "wallet"
      [] method = "CREDIT_CARD" -> "card"
      [] method = "UPI" -> "upi"
      [] OTHER -> ""

\* card_id and upi_id of a request: 0 when none is sent, else the id of the
\* active card or UPI id of the caller
AccountIds == {0, 1}

\* api/payments.py:234-309: booking, existing payment and balance are read
\* and checked
ProcessPaymentCheck(w, user, bid, method, id) ==
    /\ Free(w)
    /\ RoomFor(AccountOf(method))
    /\ LET op == "process_payment"
           account == AccountOf(method) IN
       IF ~OwnedBooking(bid, user)
       THEN Reject(w, Plain(op, 404, "Booking not found"))
       ELSE IF PaymentsOf(bid) # {}
       THEN Reject(w, Plain(op, 400, "Payment already processed for this booking"))
       ELSE IF method = "WALLET" /\ balance[account] < bookings[bid].total_amount
       THEN Reject(w, Plain(op, 400, "Insufficient wallet balance"))
       ELSE IF method = "CREDIT_CARD" /\ id = 0
       THEN Reject(w, Plain(op, 400, "Card ID required for credit card payment"))
       ELSE IF method = "CREDIT_CARD" /\ balance[account] < bookings[bid].total_amount
       THEN Reject(w, Plain(op, 400, "Insufficient card balance"))
       ELSE IF method = "UPI" /\ id = 0
       THEN Reject(w, Plain(op, 400, "UPI ID required for UPI payment"))
       ELSE IF method = "UPI" /\ balance[account] < bookings[bid].total_amount
       THEN Reject(w, Plain(op, 400, "Insufficient UPI balance"))
       ELSE ContinueOn(w, "pay_commit", user, bid, account, bookings[bid].total_amount)
    /\ UNCHANGED <<db, locks, releases, catalog, wallets>>

\* api/payments.py:251-323: the balance, the transaction and the payment are
\* written by one commit
ProcessPaymentCommit(w) ==
    /\ worker[w].pc = "pay_commit"
    /\ balance' = WrittenBalance(worker[w].account, worker[w].balance,
                                 worker[w].balance - worker[w].amount)
    /\ transactions' = Recorded(worker[w].account)
    /\ payments' = Append(payments, PaymentRow(worker[w].booking_id, worker[w].user_id,
                                               worker[w].amount))
    /\ Finish(w, Plain("process_payment", 200, "payment"))
    /\ UNCHANGED <<db, locks, releases, total_seats, base_fare, is_active,
                   schedule_date>>

\* api/payments.py:108-115: WalletAddMoney.amount is greater than 0
AddMoneyToWallet(w, user, amount) ==
    /\ Free(w)
    /\ RoomFor("wallet")
    /\ balance["wallet"] + amount <= MaxBalance
    /\ ContinueOn(w, "add_commit", user, 0, "wallet", amount)
    /\ UNCHANGED <<db, locks, releases, catalog, wallets>>

\* api/payments.py:115-127
AddMoneyCommit(w) ==
    /\ worker[w].pc = "add_commit"
    /\ balance' = WrittenBalance(worker[w].account, worker[w].balance,
                                 worker[w].balance + worker[w].amount)
    /\ transactions' = Recorded(worker[w].account)
    /\ Finish(w, Plain("add_money_to_wallet", 200, "Money added successfully"))
    /\ UNCHANGED <<db, locks, releases, catalog>>

\* deduct_from_card (345-358) and deduct_from_upi (197-210): the amount is
\* whatever number the body holds
Deduct(w, user, account, id, amount) ==
    /\ Free(w)
    /\ RoomFor(account)
    /\ balance[account] - amount <= MaxBalance
    /\ LET op == IF account = "card" THEN "deduct_from_card" ELSE "deduct_from_upi" IN
       IF id = 0
       THEN Reject(w, Plain(op, 404, IF account = "card" THEN "Card not found"
                                     ELSE "UPI ID not found"))
       ELSE IF balance[account] < amount
       THEN Reject(w, Plain(op, 400, "Insufficient balance"))
       ELSE ContinueOn(w, "deduct_commit", user, 0, account, amount)
    /\ UNCHANGED <<db, locks, releases, catalog, wallets>>

\* 360-371 and 212-223
DeductCommit(w) ==
    /\ worker[w].pc = "deduct_commit"
    /\ balance' = WrittenBalance(worker[w].account, worker[w].balance,
                                 worker[w].balance - worker[w].amount)
    /\ transactions' = Recorded(worker[w].account)
    /\ Finish(w, Plain(IF worker[w].account = "card" THEN "deduct_from_card"
                       ELSE "deduct_from_upi", 200, "Amount deducted successfully"))
    /\ UNCHANGED <<db, locks, releases, catalog>>

\* ------------------------------------------------ delete_user (admin.py)
\* the rows that refer to the user or to a booking of the user and that
\* delete_user does not delete: their foreign keys make the commit fail
RefersTo(uid) ==
    \/ \E r \in DOMAIN refund_requests : refund_requests[r].user_id = uid
    \/ \E p \in DOMAIN payments : payments[p].user_id = uid

\* api/admin.py:86-116: the passengers and the bookings of the user and the
\* user are deleted by one commit; no schedule is read or written
DeleteUser(w, admin, uid) ==
    /\ Free(w)
    /\ LET op == "delete_user" IN
       IF uid \notin users
       THEN Reject(w, Plain(op, 404, "User not found"))
            /\ UNCHANGED <<users, bookings>>
       ELSE IF uid = admin
       THEN Reject(w, Plain(op, 400, "Cannot delete your own account"))
            /\ UNCHANGED <<users, bookings>>
       ELSE IF RefersTo(uid)
       THEN Reject(w, Plain(op, 500, "Failed to delete user"))
            /\ UNCHANGED <<users, bookings>>
       ELSE /\ bookings' = [b \in {x \in DOMAIN bookings : bookings[x].user_id # uid}
                               |-> bookings[b]]
            /\ users' = users \ {uid}
            /\ Reject(w, Plain(op, 200, "User deleted successfully"))
    /\ UNCHANGED <<available_seats, total_capacity, booking_seq, refund_requests,
                   locks, releases, catalog>>

\* ------------------------------------------- schedule creation, by steps
\* the dates that have a schedule row
ScheduledDates == {schedule_date[s] : s \in ScheduleIds}

\* services/__init__.py:186-210: the route is loaded; for each of the next
\* "days" dates the session looks for a schedule of the date and keeps a new
\* one, with the seats of the train, when it finds none
CreateSchedulesCheck(w, rid, days) ==
    /\ Free(w)
    /\ IF rid # 1
       THEN Reject(w, Plain("create_schedules_for_route", 200, "Schedules created"))
       ELSE /\ worker' = [worker EXCEPT ![w] =
                   [IdleWorker EXCEPT !.pc = "schedules_commit",
                                      !.seats = total_seats,
                                      !.dates = (1..days) \ ScheduledDates]]
            /\ response' = response
    /\ UNCHANGED <<db, locks, releases, catalog>>

\* the id the auto-increment gives to the new row of a date: the rows are
\* inserted in the order of their dates
NewScheduleId(dates, d) ==
    Cardinality(ScheduleIds) + Cardinality({x \in dates : x <= d})

\* services/__init__.py:212: the commit inserts the rows the session kept;
\* train_schedules has no unique key on (route_id, schedule_date)
\* (models/__init__.py:101-112)
CreateSchedulesCommit(w) ==
    /\ worker[w].pc = "schedules_commit"
    /\ LET dates == worker[w].dates
           created == {NewScheduleId(dates, d) : d \in dates}
           DateOf(s) == CHOOSE d \in dates : NewScheduleId(dates, d) = s
       IN
       /\ available_seats' = [s \in created |-> worker[w].seats] @@ available_seats
       /\ total_capacity' = [s \in created |-> worker[w].seats] @@ total_capacity
       /\ schedule_lock' = [s \in created |-> 0] @@ schedule_lock
       /\ schedule_date' = [s \in created |-> DateOf(s)] @@ schedule_date
    /\ Finish(w, Plain("create_schedules_for_route", 200, "Schedules created"))
    /\ UNCHANGED <<users, bookings, booking_seq, refund_requests, booking_lock,
                   releases, total_seats, base_fare, is_active, payments>>

\* ---------------------------------------------------------- specifications
\* the served application: api/bookings.py over BookingService
Reserve(w) ==
    \E user \in users, sid \in ScheduleArgs, plist \in PassengerLists :
        CreateBookingCheck(w, user, sid, plist)

Release(w) ==
    \E user \in users, bid \in BookingIds : CancelBookingCheck(w, user, bid)

Get(w) ==
    \E user \in users, bid \in BookingIds : GetBooking(w, user, bid)

Update(w) ==
    \E user \in users, bid \in BookingIds, plist \in EditedLists :
        UpdateBookingCheck(w, user, bid, plist)

Next ==
    /\ \E w \in Workers :
          \/ Reserve(w)
          \/ CreateBookingCommit(w)
          \/ CreateBookingFail(w)
          \/ Release(w)
          \/ CancelBookingSchedule(w)
          \/ CancelBookingCommit(w)
          \/ CancelBookingFail(w)
    /\ UNCHANGED <<catalog, fetcher, wallets>>

Spec == Init /\ [][Next]_vars

\* POST /bookings/ alone: concurrent reserve calls, whose commits succeed or fail
CreateNext ==
    /\ \E w \in Workers :
          \/ Reserve(w)
          \/ CreateBookingCommit(w)
          \/ CreateBookingFail(w)
    /\ UNCHANGED <<catalog, fetcher, wallets>>

CreateSpec == Init /\ [][CreateNext]_vars

\* the repository functions, over bookings made by the served create_booking
LockedReserve(w) ==
    \E user \in users, sid \in ScheduleArgs, plist \in PassengerLists :
        LockedCreateBegin(w, user, sid, plist)

LockedRelease(w) ==
    \E user \in users, bid \in BookingIds : LockedCancelBegin(w, user, bid)

RepositoryNext ==
    /\ \E w \in Workers :
          \/ Reserve(w)
          \/ CreateBookingCommit(w)
          \/ CreateBookingFail(w)
          \/ LockedReserve(w)
          \/ LockedCreateBody(w)
          \/ LockedRelease(w)
          \/ LockedCancelSchedule(w)
          \/ LockedCancelCommit(w)
          \/ LockedCancelFail(w)
    /\ UNCHANGED <<catalog, fetcher, wallets>>

RepositorySpec == Init /\ [][RepositoryNext]_vars

\* two users, whose requests are served one at a time, through the served
\* application and through the repository's release
OwnerInit == InitRows({1, 2}, {1})

OwnerNext ==
    /\ \E w \in Workers :
          \/ Reserve(w)
          \/ CreateBookingCommit(w)
          \/ CreateBookingFail(w)
          \/ Release(w)
          \/ CancelBookingSchedule(w)
          \/ CancelBookingCommit(w)
          \/ CancelBookingFail(w)
          \/ Get(w)
          \/ Update(w)
          \/ UpdateBookingCommit(w)
          \/ UpdateBookingFail(w)
          \/ LockedRelease(w)
          \/ LockedCancelSchedule(w)
          \/ LockedCancelCommit(w)
          \/ LockedCancelFail(w)
    /\ UNCHANGED <<catalog, fetcher, wallets>>

OwnerSpec == OwnerInit /\ [][OwnerNext]_vars


\* payments and refund decisions
RefundIds == 1..(NumWorkers * MaxBookings)

Pay(w) ==
    \E user \in users, bid \in BookingIds, funded \in BOOLEAN :
        ProcessPayment(w, user, bid, funded)

Approve(w) == \E rid \in RefundIds : ApproveRefundRequest(w, rid)

RejectRefund(w) == \E rid \in RefundIds : RejectRefundRequest(w, rid)

\* every operation on a reservation: worker 1 serves the reservations, their
\* payments and refunds, while the other workers serve passenger updates
Editors == Workers \ {1}

LifecycleNext ==
    /\ \/ \E w \in Workers \ Editors :
             \/ Reserve(w) /\ UNCHANGED catalog
             \/ CreateBookingCommit(w) /\ UNCHANGED catalog
             \/ Release(w) /\ UNCHANGED catalog
             \/ CancelBookingSchedule(w) /\ UNCHANGED catalog
             \/ CancelBookingCommit(w) /\ UNCHANGED catalog
             \/ Pay(w)
             \/ Approve(w)
             \/ RejectRefund(w)
       \/ \E w \in Editors :
             \/ Update(w) /\ UNCHANGED catalog
             \/ UpdateBookingCommit(w) /\ UNCHANGED catalog
    /\ UNCHANGED <<fetcher, wallets>>

LifecycleSpec == Init /\ [][LifecycleNext]_vars

\* one user books and edits passengers, one request at a time
UpdateInit == InitRows({1}, {1})

UpdateNext ==
    /\ \E w \in Workers :
          \/ Reserve(w)
          \/ CreateBookingCommit(w)
          \/ Update(w)
          \/ UpdateBookingCommit(w)
          \/ UpdateBookingFail(w)
    /\ UNCHANGED <<catalog, fetcher, wallets>>

UpdateSpec == UpdateInit /\ [][UpdateNext]_vars

\* requests of the administrator
ChangeTrain(w) == \E tid \in CatalogIds, seats \in SeatValues : UpdateTrain(w, tid, seats)

Toggle(w) == \E tid \in CatalogIds : ToggleTrainStatus(w, tid)

ChangeRoute(w) == \E rid \in CatalogIds, fare \in FareValues : UpdateRoute(w, rid, fare)

RecreateSchedules(w) ==
    \E rid \in CatalogIds : CreateSchedulesForRoute(w, rid, Cardinality(ScheduleIds))

\* one reservation is made on schedule 1, and every request that can be sent
\* then, one at a time
FrameNext ==
    /\ \E w \in Workers :
           \/ Reserve(w) /\ booking_seq = 0 /\ UNCHANGED catalog
           \/ CreateBookingCommit(w) /\ UNCHANGED catalog
           \/ CreateBookingFail(w) /\ UNCHANGED catalog
           \/ Release(w) /\ UNCHANGED catalog
           \/ CancelBookingSchedule(w) /\ UNCHANGED catalog
           \/ CancelBookingCommit(w) /\ UNCHANGED catalog
           \/ CancelBookingFail(w) /\ UNCHANGED catalog
           \/ Update(w) /\ UNCHANGED catalog
           \/ UpdateBookingCommit(w) /\ UNCHANGED catalog
           \/ Pay(w)
           \/ Approve(w)
           \/ RejectRefund(w)
           \/ ChangeTrain(w)
           \/ Toggle(w)
           \/ ChangeRoute(w)
           \/ RecreateSchedules(w)
    /\ UNCHANGED <<fetcher, wallets>>

FrameSpec == UpdateInit /\ [][FrameNext]_vars

\* schedules are created for further dates while the train is changed and
\* seats are reserved and released, one request at a time
CreateSchedules(w) ==
    \E rid \in CatalogIds, days \in 1..MaxSchedules : CreateSchedulesForRoute(w, rid, days)

ScheduleNext ==
    /\ \E w \in Workers :
           \/ ChangeTrain(w)
           \/ CreateSchedules(w)
           \/ Reserve(w) /\ UNCHANGED catalog
           \/ CreateBookingCommit(w) /\ UNCHANGED catalog
           \/ Release(w) /\ UNCHANGED catalog
           \/ CancelBookingSchedule(w) /\ UNCHANGED catalog
           \/ CancelBookingCommit(w) /\ UNCHANGED catalog
    /\ UNCHANGED <<fetcher, wallets>>

ScheduleSpec == UpdateInit /\ [][ScheduleNext]_vars

\* two schedules created from the same train of MaxSeats seats: worker 1
\* serves the requests on schedule 1 and worker 2 those on schedule 2,
\* through the served create_booking and the repository
IsolationInit ==
    /\ InitSchedules({1}, {1, 2}, {1, 2})
    /\ total_capacity = [s \in {1, 2} |-> MaxSeats]

ReserveOn(w, sid) ==
    \E user \in users, plist \in PassengerLists : CreateBookingCheck(w, user, sid, plist)

ReleaseOn(w, sid) ==
    \E user \in users, bid \in BookingIds :
        /\ bid \in DOMAIN bookings
        /\ bookings[bid].schedule_id = sid
        /\ CancelBookingCheck(w, user, bid)

LockedReserveOn(w, sid) ==
    \E user \in users, plist \in PassengerLists : LockedCreateBegin(w, user, sid, plist)

LockedReleaseOn(w, sid) ==
    \E user \in users, bid \in BookingIds :
        /\ bid \in DOMAIN bookings
        /\ bookings[bid].schedule_id = sid
        /\ LockedCancelBegin(w, user, bid)

IsolationNext ==
    /\ \E w \in Workers :
          \/ ReserveOn(w, w)
          \/ CreateBookingCommit(w)
          \/ LockedReserveOn(w, w)
          \/ LockedCreateBody(w)
          \/ LockedReleaseOn(w, w)
          \/ LockedCancelSchedule(w)
          \/ LockedCancelCommit(w)
    /\ UNCHANGED <<catalog, fetcher, wallets>>

IsolationSpec == IsolationInit /\ [][IsolationNext]_vars

\* one user books and pays while the administrator changes the fare
FareNext ==
    /\ \E w \in Workers :
           \/ Reserve(w) /\ UNCHANGED catalog
           \/ CreateBookingCommit(w) /\ UNCHANGED catalog
           \/ ChangeRoute(w)
           \/ Pay(w)
    /\ UNCHANGED <<fetcher, wallets>>

FareSpec == UpdateInit /\ [][FareNext]_vars
\* the rows of the booking backend, which the fetcher never touches
railway == <<db, locks, worker, response, releases, catalog, wallets>>

\* calls of safe_get_json, for every CHESS_MAX_RETRIES up to RetriesLimit
\* and every outcome of every request
GetNext ==
    /\ \/ \E m \in 0..RetriesLimit : SafeGetJson(m)
       \/ \E outcome \in Outcomes : Request(outcome)
    /\ UNCHANGED <<railway, etl, disk>>

GetSpec == UpdateInit /\ [][GetNext]_vars

\* runs of fetch_and_write one after the other, each of which may crash
FetchNext ==
    /\ \/ \E readFails \in BOOLEAN : StartRun(readFails)
       \/ FetchArchive
       \/ AppendRows
       \/ SaveState
       \/ RunComplete
       \/ Crash
    /\ UNCHANGED <<railway, http, disk>>

FetchSpec == UpdateInit /\ [][FetchNext]_vars

\* save_state of every state, ended at any point, and load_state after it
SaveNext ==
    /\ \/ \E archives \in SUBSET Archives : SaveStateOpen(archives)
       \/ Write
       \/ Replace
       \/ CrashInSave
       \/ LoadState
    /\ UNCHANGED <<railway, http, etl>>

SaveSpec == UpdateInit /\ [][SaveNext]_vars

\* refund decisions of several admins at once, on the refund requests of
\* the bookings worker 1 has reserved and cancelled
DecideCheck(w) ==
    \E rid \in RefundIds :
        \/ DecideRefundCheck(w, "approve_refund_request", rid, "approved")
        \/ DecideRefundCheck(w, "reject_refund_request", rid, "rejected")

RefundNext ==
    /\ \/ \E w \in Workers \ Editors :
             \/ Reserve(w) /\ UNCHANGED catalog
             \/ CreateBookingCommit(w) /\ UNCHANGED catalog
             \/ Release(w) /\ UNCHANGED catalog
             \/ CancelBookingSchedule(w) /\ UNCHANGED catalog
             \/ CancelBookingCommit(w) /\ UNCHANGED catalog
       \/ \E w \in Workers :
             \/ DecideCheck(w)
             \/ DecideRefundCommit(w)
    /\ UNCHANGED <<fetcher, wallets>>

RefundSpec == Init /\ [][RefundNext]_vars

\* payments of the booking worker 1 reserves, by every worker at once
PayBySteps(w) ==
    \E user \in users, bid \in BookingIds, method \in PaymentMethods, id \in AccountIds :
        ProcessPaymentCheck(w, user, bid, method, id)

AddMoney(w) ==
    \E user \in users, amount \in 1..MaxFare : AddMoneyToWallet(w, user, amount)

DeductAmounts == (-1)..MaxFare

DeductFrom(w) ==
    \E user \in users, account \in {"card", "upi"}, id \in AccountIds,
       amount \in DeductAmounts :
        Deduct(w, user, account, id, amount)

PayNext ==
    /\ \/ \E w \in Workers \ Editors :
             \/ Reserve(w) /\ booking_seq = 0 /\ UNCHANGED <<catalog, wallets>>
             \/ CreateBookingCommit(w) /\ UNCHANGED <<catalog, wallets>>
       \/ \E w \in Workers :
             \/ PayBySteps(w)
             \/ ProcessPaymentCommit(w)
    /\ UNCHANGED fetcher

PaySpec == Init /\ [][PayNext]_vars

\* the calls that write a balance: worker 1 reserves a booking and pays it,
\* by any method, while a second worker serves add-money and deduct calls
\* the worker that serves add-money and deduct calls
Tellers == {2}

BalanceInit ==
    /\ Init
    /\ total_capacity = [s \in {1} |-> MaxSeats]

BalanceNext ==
    /\ \/ \E w \in Workers \ Editors :
             \/ Reserve(w) /\ booking_seq = 0 /\ UNCHANGED <<catalog, wallets>>
             \/ CreateBookingCommit(w) /\ UNCHANGED <<catalog, wallets>>
             \/ PayBySteps(w)
             \/ ProcessPaymentCommit(w)
       \/ \E w \in Tellers :
             \/ AddMoney(w)
             \/ AddMoneyCommit(w)
             \/ DeductFrom(w)
             \/ DeductCommit(w)
    /\ UNCHANGED fetcher

BalanceSpec == BalanceInit /\ [][BalanceNext]_vars

\* reservations and releases of two users, one of them the admin who
\* deletes users
AdminId == 2

Delete(w) == \E uid \in {0} \cup users : DeleteUser(w, AdminId, uid)

DeleteNext ==
    /\ \E w \in Workers :
          \/ Reserve(w) /\ UNCHANGED catalog
          \/ CreateBookingCommit(w) /\ UNCHANGED catalog
          \/ Release(w) /\ UNCHANGED catalog
          \/ CancelBookingSchedule(w) /\ UNCHANGED catalog
          \/ CancelBookingCommit(w) /\ UNCHANGED catalog
          \/ Delete(w)
    /\ UNCHANGED <<fetcher, wallets>>

DeleteSpec == OwnerInit /\ [][DeleteNext]_vars

\* the locked repository calls by every worker at once, over the bookings
\* worker 1 makes by the served create_booking; the scheduling is fair: a
\* call that can go on does, and a call that waits for a row lock gets it
\* when the lock is free again and again (the database queues the waiters)
LockedNext ==
    /\ \/ \E w \in Workers \ Editors :
             \/ \E user \in users, sid \in ScheduleIds :
                   CreateBookingCheck(w, user, sid, <<BookedDetails>>)
             \/ CreateBookingCommit(w)
       \/ \E w \in Workers :
             \/ \E user \in users, sid \in ScheduleArgs :
                   LockedCreateBegin(w, user, sid, <<BookedDetails>>)
             \/ LockedCreateBody(w)
             \/ LockedRelease(w)
             \/ LockedCancelSchedule(w)
             \/ LockedCancelCommit(w)
             \/ LockedCancelFail(w)
    /\ UNCHANGED <<catalog, fetcher, wallets>>

LockedInit ==
    /\ Init
    /\ total_capacity = [s \in {1} |-> MaxSeats]

LockedSpec ==
    /\ LockedInit
    /\ [][LockedNext]_vars
    /\ \A w \in WorkerIds :
          /\ WF_vars(LockedCreateBody(w) /\ UNCHANGED <<catalog, fetcher, wallets>>)
          /\ SF_vars(LockedCancelSchedule(w) /\ UNCHANGED <<catalog, fetcher, wallets>>)
          /\ WF_vars(LockedCancelCommit(w) /\ UNCHANGED <<catalog, fetcher, wallets>>)

\* schedules are created for the route by every worker at once (an admin
\* posts create-schedules or bulk-create-schedules while another does), and
\* worker 1 books on the schedules there are
CreateBySteps(w) ==
    \E rid \in CatalogIds, days \in 1..MaxSchedules : CreateSchedulesCheck(w, rid, days)

CreationNext ==
    /\ \/ \E w \in Workers : CreateBySteps(w) \/ CreateSchedulesCommit(w)
       \/ \E w \in Workers \ Editors :
             \/ Reserve(w) /\ booking_seq = 0 /\ UNCHANGED catalog
             \/ CreateBookingCommit(w) /\ UNCHANGED catalog
    /\ UNCHANGED <<fetcher, wallets>>

CreationSpec == Init /\ [][CreationNext]_vars

\* ------------------------------------------------------------ properties
Quiescent == \A w \in Workers : Free(w)

BookingsOn(s) == {b \in DOMAIN bookings : bookings[b].schedule_id = s}

ConfirmedOn(s) == {b \in BookingsOn(s) : bookings[b].status = "confirmed"}

RECURSIVE SeatCount(_)
SeatCount(ids) ==
    IF ids = {} THEN 0
    ELSE LET b == CHOOSE x \in ids : TRUE
         IN bookings[b].passenger_count + SeatCount(ids \ {b})

\* C1: after every reserve and release, the counter of every schedule is
\* at least 0 and at most the seat count the schedule was created with
CapacityInvariant ==
    \A s \in ScheduleIds :
        /\ 0 <= available_seats[s]
        /\ available_seats[s] <= total_capacity[s]

\* C2: whenever no reserve or release is in progress, the counter plus the
\* seats of the Confirmed reservations of a schedule is its total capacity
Conservation ==
    Quiescent =>
        \A s \in ScheduleIds :
            available_seats[s] + SeatCount(ConfirmedOn(s)) = total_capacity[s]

\* C3: while only one-seat reservations were made on a schedule and none
\* was released, no more reservations succeeded than the schedule has seats,
\* and once the calls are over, every success has taken one seat off the
\* counter (so the counter is 0 when all seats are gone)
NoLostUpdate ==
    \A s \in ScheduleIds :
        (\A b \in BookingsOn(s) : bookings[b].passenger_count = 1 /\ releases[b] = 0)
        => /\ Cardinality(BookingsOn(s)) <= total_capacity[s]
           /\ Quiescent =>
                  available_seats[s] = total_capacity[s] - Cardinality(BookingsOn(s))

\* a worker is between its read of the counter of schedule s and its commit
InCriticalSection(w, s) ==
    /\ worker[w].schedule_id = s
    /\ worker[w].pc \in {"create_commit", "cancel_commit",
                         "locked_create", "locked_cancel_commit"}

\* C4: a reserve or release holds the exclusive access to its schedule from
\* its read of the counter to its commit, so no two operations are between
\* read and commit on the same schedule
Linearized ==
    \A s \in ScheduleIds : \A w \in Workers :
        InCriticalSection(w, s)
        => /\ schedule_lock[s] = w
           /\ \A v \in Workers \ {w} : ~InCriticalSection(v, s)

\* C5: of the release calls on one reservation, issued in sequence or
\* concurrently, exactly one succeeds
ReleasedOnce ==
    \A b \in DOMAIN bookings :
        bookings[b].passenger_count >= 1 => releases[b] <= 1

\* the step in which the commit of worker w's create_booking fails
CommitFails(w) ==
    /\ worker[w].pc = "create_commit"
    /\ worker'[w].pc = "idle"
    /\ response'.code = 500

\* C6: when the commit of a reserve fails after its availability check has
\* passed, the counter is unchanged and no reservation (with its passengers)
\* of that call exists
AtomicUnderCommitFailure ==
    [][\A w \in Workers :
          CommitFails(w)
          => /\ available_seats' = available_seats
             /\ bookings' = bookings
             /\ worker[w].booking_id \notin DOMAIN bookings']_vars

\* a create_booking has failed at its commit: its booking id is used up and
\* no row has it
CommitFailed ==
    /\ response = Plain("create_booking", 500, "Booking failed. Please try again.")
    /\ \E b \in 1..booking_seq :
          /\ b \notin DOMAIN bookings
          /\ \A w \in Workers : worker[w].booking_id # b

\* C7: a reserve for more seats than the schedule has left fails with an
\* error that carries the available and the requested count, and changes
\* neither the counter nor the reservations
InsufficientCapacityReported ==
    [][\A w \in Workers, u \in users, s \in ScheduleIds, pl \in PassengerLists :
          (available_seats[s] < Len(pl) /\ CreateBookingCheck(w, u, s, pl))
          => /\ response'.available = available_seats[s]
             /\ response'.requested = Len(pl)
             /\ available_seats' = available_seats
             /\ bookings' = bookings]_vars

\* C8: a reserve on a schedule id that has no row changes nothing, and its
\* answer is not the answer to a reserve that lacks seats
ScheduleNotFoundDistinct ==
    [][\A w \in Workers, u \in users, pl \in PassengerLists :
          CreateBookingCheck(w, u, MissingScheduleId, pl)
          => /\ available_seats' = available_seats
             /\ bookings' = bookings
             /\ \A u2 \in users, s2 \in ScheduleIds, pl2 \in PassengerLists :
                   available_seats[s2] < Len(pl2)
                   => ~CreateBookingCheck(w, u2, s2, pl2)]_vars

\* C10: every reservation has at least one seat
PositiveSeatCount ==
    \A b \in DOMAIN bookings : bookings[b].passenger_count >= 1

\* the rows are as they were
RowsUnchanged ==
    /\ available_seats' = available_seats
    /\ bookings' = bookings
    /\ refund_requests' = refund_requests

\* a booking of the caller that is cancelled already
CancelledOwnedBooking(bid, user) ==
    /\ OwnedBooking(bid, user)
    /\ bookings[bid].status = "cancelled"

\* C9: a release of a reservation that does not exist or is another user's
\* changes no row, and its answer is not the answer to a release of a
\* reservation that is cancelled already; a get or an update of a booking
\* that is not the caller's changes no row and starts no update
NotOwnedRejected ==
    [][\A w \in Workers, u \in users, b \in BookingIds :
          ~OwnedBooking(b, u)
          => /\ CancelBookingCheck(w, u, b)
                => /\ RowsUnchanged
                   /\ worker' = worker
                   /\ \A u2 \in users, b2 \in BookingIds :
                         CancelledOwnedBooking(b2, u2) => ~CancelBookingCheck(w, u2, b2)
             /\ LockedCancelBegin(w, u, b)
                => /\ RowsUnchanged
                   /\ worker' = worker
                   /\ \A u2 \in users, b2 \in BookingIds :
                         CancelledOwnedBooking(b2, u2) => ~LockedCancelBegin(w, u2, b2)
             /\ GetBooking(w, u, b) => RowsUnchanged
             /\ \A pl \in EditedLists :
                   UpdateBookingCheck(w, u, b, pl) => (RowsUnchanged /\ worker' = worker)]_vars

\* C11: a reservation appears only by a successful reserve, as Confirmed;
\* its status changes only from Confirmed to Cancelled, by a successful
\* release; and a Cancelled reservation is never changed again, neither its
\* status nor its passengers
Lifecycle ==
    [][\A b \in BookingIds :
          /\ (b \notin DOMAIN bookings /\ b \in DOMAIN bookings')
             => /\ bookings'[b].status = "confirmed"
                /\ \E w \in Workers : CreateBookingCommit(w)
          /\ b \in DOMAIN bookings
             => /\ b \in DOMAIN bookings'
                /\ bookings'[b].status # bookings[b].status
                   => /\ bookings[b].status = "confirmed"
                      /\ bookings'[b].status = "cancelled"
                      /\ \E w \in Workers :
                            CancelBookingCommit(w) \/ LockedCancelCommit(w)
                /\ bookings[b].status = "cancelled"
                   => bookings'[b] = bookings[b]]_vars

\* C12: the passenger_count of a booking never changes, and is the number of
\* its passenger rows, whatever the length of the list an update sends
SeatCountImmutable ==
    [][\A b \in DOMAIN bookings' :
          /\ Len(bookings'[b].passengers) = bookings'[b].passenger_count
          /\ b \in DOMAIN bookings
             => bookings'[b].passenger_count = bookings[b].passenger_count]_vars

\* an update with a list shorter than the stored one has been applied: the
\* first passenger is edited, the last one is as booked
PartlyEdited ==
    /\ response = Plain("update_booking_passengers", 200, "Booking updated successfully")
    /\ \E b \in DOMAIN bookings :
          /\ bookings[b].passenger_count >= 2
          /\ bookings[b].passengers[1] = EditedDetails
          /\ bookings[b].passengers[bookings[b].passenger_count] = BookedDetails

\* C13: the counter of an existing schedule changes only in the commit of a
\* successful reserve or of a successful release; payments, refund decisions,
\* passenger updates, changes of the train and the route, the creation of
\* schedules for dates that have one, and failed reserves and releases leave
\* it as it is
OnlyReserveAndRelease ==
    [][\A s \in ScheduleIds :
          available_seats'[s] # available_seats[s]
          => /\ response'.code = 200
             /\ \E w \in Workers : CreateBookingCommit(w) \/ CancelBookingCommit(w)]_vars

\* a booking was edited, paid and cancelled, its refund was decided, and the
\* train and the route were changed, and the counter is back at the seats
\* the schedule was created with
EverythingElseDone ==
    /\ \E b \in DOMAIN bookings :
          /\ bookings[b].passenger_count >= 1
          /\ bookings[b].passengers[1] = EditedDetails
          /\ bookings[b].status = "cancelled"
          /\ PaymentsOf(b) # {}
    /\ \E r \in DOMAIN refund_requests : refund_requests[r].status # "pending"
    /\ total_seats # total_capacity[1]
    /\ base_fare # 1
    /\ ~is_active
    /\ available_seats[1] = total_capacity[1]

\* C14: the seats a schedule was created with are a positive number, and
\* they are the same in every later state, whatever is done to the train
FixedPositiveCapacity ==
    /\ [](\A s \in ScheduleIds : total_capacity[s] >= 1)
    /\ [][\A s \in ScheduleIds : total_capacity'[s] = total_capacity[s]]_vars

\* worker w ends, in this step, an operation on schedule s
EndsOperationOn(w, s) ==
    /\ worker[w].schedule_id = s
    /\ worker[w].pc # "idle"
    /\ worker'[w].pc = "idle"

\* the operation worker w is in can take its next step as soon as the locks
\* on the rows of its own schedule and booking are free
NotBlockedByOthers(w) ==
    LET s == worker[w].schedule_id
        rowsFree == schedule_lock[s] = 0 /\ booking_lock[worker[w].booking_id] = 0
    IN  /\ (worker[w].pc = "create_commit" /\ schedule_lock[s] = 0)
           => ENABLED CreateBookingCommit(w)
        /\ (worker[w].pc = "cancel_commit" /\ rowsFree)
           => ENABLED CancelBookingCommit(w)
        /\ (worker[w].pc = "locked_cancel_schedule" /\ schedule_lock[s] = 0)
           => ENABLED LockedCancelSchedule(w)
        /\ worker[w].pc \in {"cancel_schedule", "locked_create", "locked_cancel_commit"}
           => ENABLED (CancelBookingSchedule(w) \/ LockedCreateBody(w)
                       \/ LockedCancelCommit(w))
        /\ \A a \in ScheduleIds :
              (Free(w) /\ schedule_lock[a] = 0)
              => \A u \in users, pl \in PassengerLists :
                    ENABLED LockedCreateBegin(w, u, a, pl)

BoundedBackoff ==
    LET n == Len(http.responses)
        failed == {i \in 1..n : http.responses[i] # 200}
    IN  (/\ http.pc # "idle"
         /\ \A i \in 1..n : http.responses[i] \in Transient \cup {200})
        => /\ n <= http.max_retries
           /\ \A i \in 1..Len(http.slept) : http.slept[i] = 2 ^ i
           /\ Len(http.slept) = Cardinality({i \in failed : i < http.max_retries})
           /\ \A i \in 1..n : http.responses[i] = 200 => i = n
           /\ http.pc = "returned" <=> (n >= 1 /\ http.responses[n] = 200)
           /\ http.pc = "raised" <=> (failed = 1..n /\ n >= http.max_retries)
           /\ http.pc = "loop" <=> (failed = 1..n /\ n < http.max_retries)

\* three transient failures with CHESS_MAX_RETRIES = 3: slept 2 and 4 seconds
RaisedAfterBackoff ==
    /\ http.pc = "raised"
    /\ http.max_retries = 3
    /\ http.responses = <<RequestException, 503, 429>>
    /\ http.slept = <<2, 4>>

\* C18: safe_get_json raises at the first response whose status is none of
\* 200, 429, 500, 502, 503, 504, and makes no further request
NonTransientNotRetried ==
    \A i \in 1..Len(http.responses) :
        http.responses[i] \notin Transient \cup {200}
        => /\ i = Len(http.responses)
           /\ http.pc = "raised"

\* C19: an infrastructure error during a reserve is retried inside the
\* request: the commit that fails on the first attempt of a reserve (every
\* reserve reaches its commit straight from its checks, so each failure seen
\* here is a first one) does not end the request with the generic error
FirstFailureRetried ==
    [][\A w \in Workers : ~CommitFails(w)]_vars

\* C20: after any sequence of fetch_and_write runs, crashed ones included, no
\* non-empty game_url is in more than one row of the Games sheet
IdempotentByGameUrl ==
    \A i, j \in 1..Len(etl.games) :
        (i # j /\ etl.games[i] # NoUrl) => etl.games[i] # etl.games[j]

\* C21: whenever save_state ends, by returning or by a crash at any point,
\* state.json holds the complete text of the state saved before or of the
\* new state, and load_state never finds a text it cannot read
CrashSafeState ==
    /\ disk.state_file = NoFile \/ IsJson(disk.state_file)
    /\ disk.pc = "dump" => disk.state_file = disk.previous
    /\ ~disk.warned

\* a save that crashed half way: state.json.tmp holds part of a text, and
\* the next load_state reads the state saved before
CrashedHalfWay ==
    /\ disk.pc = "idle"
    /\ disk.tmp # NoFile
    /\ ~IsJson(disk.tmp)
    /\ Len(disk.tmp) >= 2
    /\ disk.state_file = Dump({1})
    /\ disk.loaded = {1}

\* C22: every cancelled booking has exactly one refund request, and every
\* refund request holds the total_amount of its booking
OneRefundRequestPerCancel ==
    /\ \A b \in DOMAIN bookings :
          bookings[b].status = "cancelled"
          => Cardinality({r \in DOMAIN refund_requests :
                            refund_requests[r].booking_id = b}) = 1
    /\ \A r \in DOMAIN refund_requests :
          refund_requests[r].booking_id \in DOMAIN bookings
          => refund_requests[r].amount
               = bookings[refund_requests[r].booking_id].total_amount

\* C23: a refund request that has left pending never changes again: not its
\* status and not its admin_id (approved_at is written with them)
DecidedOnce ==
    [][\A r \in DOMAIN refund_requests :
          refund_requests[r].status # "pending"
          => refund_requests'[r] = refund_requests[r]]_vars

\* C24: no booking has more than one payment
OnePaymentPerBooking ==
    \A b \in BookingIds : Cardinality(PaymentsOf(b)) <= 1

\* C26: the commit that records a completed payment debits exactly the
\* amount of the payment from exactly one balance, and records the debit
DebitedWithPayment ==
    [][Len(payments') > Len(payments)
       => \E a \in Accounts :
             /\ balance'[a] = balance[a] - payments'[Len(payments')].amount
             /\ transactions'[a] = transactions[a] + 1
             /\ \A other \in Accounts \ {a} :
                   /\ balance'[other] = balance[other]
                   /\ transactions'[other] = transactions[other]]_vars

\* a request is refused for want of balance
InsufficientBalance(resp) ==
    resp.code = 400
    /\ resp.detail \in {"Insufficient wallet balance", "Insufficient card balance",
                        "Insufficient UPI balance", "Insufficient balance"}

\* C27: no balance is ever negative, and the step that answers an
\* insufficient-balance error writes no balance, no transaction and no payment
NonNegativeBalances ==
    /\ [](\A a \in Accounts : balance[a] >= 0)
    /\ [][\A w \in Workers :
             (worker[w].pc = "idle" /\ worker' = worker /\ response' # response
              /\ InsufficientBalance(response'))
             => UNCHANGED <<balance, transactions, payments>>]_vars

\* a payment has read the card balance and is about to debit more than the
\* card holds by now, a deduct having been committed since; and a further
\* deduct was refused for want of balance
StaleDebitPending ==
    /\ \E w \in Workers :
          /\ worker[w].pc = "pay_commit"
          /\ worker[w].account = "card"
          /\ worker[w].amount > balance["card"]
    /\ transactions["card"] >= 1
    /\ InsufficientBalance(response)

\* C28: when delete_user has removed a user, the counter of every schedule
\* plus the seats of the Confirmed bookings that remain is the seat count the
\* schedule was created with
ConservedByDelete ==
    (Quiescent /\ users # {1, AdminId})
    => \A s \in ScheduleIds :
          available_seats[s] + SeatCount(ConfirmedOn(s)) = total_capacity[s]

\* the row locks a call holds
HeldBy(w) ==
    {<<"schedule", s>> : s \in {x \in DOMAIN schedule_lock : schedule_lock[x] = w}}
    \cup {<<"booking", b>> : b \in {x \in DOMAIN booking_lock : booking_lock[x] = w}}

\* the steps at which a call of the locked path is under way
LockedSteps == {"locked_create", "locked_cancel_schedule", "locked_cancel_commit"}

\* a call waits for the row lock of its schedule, which another call holds
Waits(w) ==
    /\ worker[w].pc = "locked_cancel_schedule"
    /\ schedule_lock[worker[w].schedule_id] # 0

\* C29: the locks are taken in one order (a release holds the lock of its
\* booking before it asks for the lock of the schedule, a reserve holds the
\* lock of its schedule only), the holder of a lock that is waited for never
\* waits itself, and under fair scheduling every call of the locked path
\* ends and holds no lock any more
DeadlockFree ==
    /\ [](\A w \in Workers :
            /\ worker[w].pc = "locked_create"
               => HeldBy(w) = {<<"schedule", worker[w].schedule_id>>}
            /\ worker[w].pc = "locked_cancel_schedule"
               => HeldBy(w) = {<<"booking", worker[w].booking_id>>}
            /\ worker[w].pc = "locked_cancel_commit"
               => HeldBy(w) = {<<"booking", worker[w].booking_id>>,
                               <<"schedule", worker[w].schedule_id>>}
            /\ worker[w].pc \in {"idle", "create_commit"} => HeldBy(w) = {}
            /\ Waits(w) => ~Waits(schedule_lock[worker[w].schedule_id]))
    /\ \A w \in WorkerIds :
          (worker[w].pc \in LockedSteps) ~> (worker[w].pc = "idle" /\ HeldBy(w) = {})

\* a release that holds the lock of its booking waits for the lock of the
\* schedule, which a reserve holds
ReleaseWaitsForReserve ==
    \E w \in Workers :
        /\ Waits(w)
        /\ worker[schedule_lock[worker[w].schedule_id]].pc = "locked_create"

\* a step of schedule creation that inserts rows
SchedulesCreated == ScheduleIds' # ScheduleIds

\* C25: no two schedules of the route have the same date, a schedule starts
\* with the seats of the train, and the creation of schedules leaves the
\* seats of the schedules there were, and the bookings, as they are
OneSchedulePerDate ==
    /\ [](\A s, t \in ScheduleIds : schedule_date[s] = schedule_date[t] => s = t)
    /\ [][SchedulesCreated
            => /\ \A s \in ScheduleIds' \ ScheduleIds :
                     available_seats'[s] = total_seats
               /\ \A s \in ScheduleIds : available_seats'[s] = available_seats[s]
               /\ bookings' = bookings]_vars
====
